---- MODULE Spec2Model ----
(***************************************************************************)
(* Session / project orchestration of the IDE page (src/pages/Index.tsx):  *)
(* the workspace handle, the save / new / open / import handlers and the   *)
(* auto-save interval, together with the context operations they call      *)
(* (saveProject, createNewProject, openProject, importProject), the        *)
(* project store and the console.                                          *)
(*                                                                         *)
(* Texts.  The empty string '' is the empty tuple.  The serialized         *)
(* workspace document of a surface holding blocks b is <<"xml", b>>: it is *)
(* never the empty string, also for an empty surface (Blockly serializes   *)
(* an empty workspace to an <xml> element).  The source generated from a   *)
(* surface holding blocks b is <<"ino", b>>.                               *)
(*                                                                         *)
(* Surfaces.  Each mount of BlocklyEditor makes a new surface; its owner   *)
(* is the project it shows.  blocklyKey is a React key: its number is      *)
(* never read, each setBlocklyKey(prev => prev + 1) changes it and so      *)
(* mounts the editor anew (remount).  workspaceRef is Null or points to a  *)
(* surface object: "main", the mounted one, or "held", one that has been   *)
(* unmounted since; it keeps the surface it captured until checkWorkspace  *)
(* captures another one.                                                   *)
(*                                                                         *)
(* Time.  One clock unit is 30 s.  The 500 ms mount check is shorter than  *)
(* a unit: while it is pending no unit can pass.                           *)
(***************************************************************************)
EXTENDS Integers, Sequences, FiniteSets, TLC

VARIABLES
  currentProject,   \* the active project (NoProject: none)
  store,            \* ProjectStore: id -> [blocklyXml, generatedCode]
  nextId,           \* next id the store mints
  generatedCode,    \* the context's generated source
  workspaceRef,     \* useRef: Null, "main" or "held"
  mainWorkspace,    \* Blockly.getMainWorkspace(): [owner, blocks]
  heldWorkspace,    \* the surface workspaceRef points to once it is unmounted
  checkTimer,       \* the setTimeout(checkWorkspace, 500) is pending
  elapsed,          \* clock units since the auto-save interval was armed
  saves,            \* saveProject calls in flight
  opens,            \* openProject calls in flight (ids being fetched)
  console,          \* ConsoleSink: sequence of [level, text]
  lastCompleted,    \* id of the most recently completed create/open/import
  evt               \* the last step taken: [op, id, thrown]

vars == <<currentProject, store, nextId, generatedCode, workspaceRef,
          mainWorkspace, heldWorkspace, checkTimer, elapsed, saves, opens,
          console, lastCompleted, evt>>

\* ---------------------------------------------------------------- bounds
MaxProjects == 1
MaxInFlight == 1
MaxConsole == 1
\* setInterval(..., 30000): one clock unit is the 30 s of the interval
AutoSaveInterval == 1

\* ---------------------------------------------------------------- values
Null == "null"
NoId == 0
EmptyText == <<>>
ProjectIds == 1..MaxProjects
\* an id the store never mints
MissingId == MaxProjects + 1
\* What a surface holds.  The handlers read a surface only through its
\* serialized text and test that text only for emptiness, so two contents are
\* enough to tell one document from another.
Contents == {"none", "blink"}

\* the active project; its blocklyXml is read once, when the editor is
\* mounted for it, and is handed to remount then
NoProject == [id |-> NoId]
NoWorkspace == [owner |-> NoId, blocks |-> "none"]

\* Blockly.Xml.domToText(Blockly.Xml.workspaceToDom(ws))
workspaceToXml(ws) == <<"xml", ws.blocks>>

\* BlocklyEditor seeding a surface from initialXml ('' or undefined: empty)
xmlToBlocks(xml) == IF xml = EmptyText THEN "none" ELSE xml[2]

\* CodeGenerator: source text of a surface holding blocks b
generate(b) == <<"ino", b>>

InfoLoaded == [level |-> "info", text |-> "Proyecto cargado correctamente"]
ErrorSave == [level |-> "error", text |-> "save failed"]

\* ---------------------------------------------------------------- helpers
\* the surface object workspaceRef.current points to
Deref == IF workspaceRef = "main" THEN mainWorkspace ELSE heldWorkspace

getWorkspaceXml ==
  IF workspaceRef # Null THEN workspaceToXml(Deref) ELSE EmptyText

\* the project whose surface a read through workspaceRef comes from
readOwner == IF workspaceRef # Null THEN Deref.owner ELSE NoId

\* useEffect(..., [currentProject, handleSave]): the interval is cleared and set
\* again when currentProject is a new object (newProject) or handleSave is a
\* new callback, which it is when generatedCode has changed
autoSaveEffect(newProject, gc) ==
  elapsed' = IF newProject \/ gc # generatedCode THEN 0 ELSE elapsed

\* calls awaiting the store
InFlight == Cardinality(saves) + Cardinality(opens)

createVars == <<currentProject, store, nextId>>

Event(op, id, thrown) == [op |-> op, id |-> id, thrown |-> thrown]

\* ------------------------------------------------- context operations
\* saveProject(xml, code): the call is scoped to the active project's id as it
\* is when the call is made; the store write lands when the call completes
saveProject(xml, code) ==
  saves' = saves \cup {[id |-> currentProject.id, blocklyXml |-> xml,
                        generatedCode |-> code]}

\* saveProjectDone letting a failed write escape instead of reporting it
saveProjectDoneRethrows(s, ok) ==
  IF s.id = NoId
  THEN /\ ok
       /\ UNCHANGED <<store, console>>
       /\ evt' = Event("saveNoProject", s.id, "none")
  ELSE IF ok /\ s.id \in DOMAIN store
  THEN /\ store' = [store EXCEPT ![s.id] =
                      [blocklyXml |-> s.blocklyXml, generatedCode |-> s.generatedCode]]
       /\ UNCHANGED console
       /\ evt' = Event("saveDone", s.id, "none")
  ELSE /\ UNCHANGED <<store, console>>
       /\ evt' = Event("saveFailed", s.id, "PersistenceFailure")

\* the completion of a saveProject call s; ok: the store accepts the write.
\* A failed write is caught here and reported to the console.
saveProjectDone(s, ok) ==
  IF s.id = NoId
  THEN /\ ok
       /\ UNCHANGED <<store, console>>
       /\ evt' = Event("saveNoProject", s.id, "none")
  ELSE IF ok /\ s.id \in DOMAIN store
  THEN /\ store' = [store EXCEPT ![s.id] =
                      [blocklyXml |-> s.blocklyXml, generatedCode |-> s.generatedCode]]
       /\ UNCHANGED console
       /\ evt' = Event("saveDone", s.id, "none")
  ELSE /\ Len(console) < MaxConsole
       /\ console' = Append(console, ErrorSave)
       /\ UNCHANGED store
       /\ evt' = Event("saveFailed", s.id, "none")

\* createNewProject writing the record without making the project active
createNewProjectNoActivate(xml, code) ==
  /\ nextId <= MaxProjects
  /\ UNCHANGED currentProject
  /\ store' = store @@ (nextId :> [blocklyXml |-> xml, generatedCode |-> code])
  /\ nextId' = nextId + 1

\* createNewProject(name, xml, code): mints an id, makes the project active and
\* writes its record
createNewProject(xml, code) ==
  /\ nextId <= MaxProjects
  /\ currentProject' = [id |-> nextId]
  /\ store' = store @@ (nextId :> [blocklyXml |-> xml, generatedCode |-> code])
  /\ nextId' = nextId + 1

\* how the fetch of openProject(id) ends
openOutcome(id) == IF id \in DOMAIN store THEN "none" ELSE "NotFound"

\* the document of the record the fetch returns
openedXml(id) == IF id \in DOMAIN store THEN store[id].blocklyXml ELSE EmptyText

\* openProject(id), once the fetch has answered: the record replaces the active
\* project wholesale; an absent id is NotFound and changes nothing
openProject(id) ==
  IF id \in DOMAIN store
  THEN currentProject' = [id |-> id]
  ELSE UNCHANGED currentProject

\* ------------------------------------------------- the page's handlers
\* setBlocklyKey(prev => prev + 1): BlocklyEditor is mounted anew with
\* initialXml = xml, the document of the project just made active, and the
\* code generator follows; workspaceRef goes on pointing to the surface it
\* captured, which keeps its blocks or is cleared by its disposal
remount(xml) ==
  /\ workspaceRef' = IF workspaceRef = Null THEN Null ELSE "held"
  /\ mainWorkspace' = [owner |-> currentProject'.id,
                       blocks |-> xmlToBlocks(xml)]
  /\ generatedCode' = generate(xmlToBlocks(xml))
  /\ IF workspaceRef = "main"
     THEN \E kept \in BOOLEAN :
            heldWorkspace' = IF kept THEN mainWorkspace
                             ELSE [mainWorkspace EXCEPT !.blocks = "none"]
     ELSE UNCHANGED heldWorkspace
  /\ checkTimer' = TRUE

\* handleSave without its `if (xml)`
handleSaveNoGuard ==
  /\ InFlight < MaxInFlight
  /\ saveProject(getWorkspaceXml, generatedCode)
  /\ UNCHANGED createVars

\* handleSave passing the document of an empty surface, not the one it read
handleSaveBlank ==
  IF getWorkspaceXml # EmptyText
  THEN /\ InFlight < MaxInFlight
       /\ saveProject(workspaceToXml(NoWorkspace), generatedCode)
       /\ UNCHANGED createVars
  ELSE UNCHANGED <<saves, currentProject, store, nextId>>

\* handleSave going through createNewProject
handleSaveCreates ==
  IF getWorkspaceXml # EmptyText
  THEN /\ createNewProject(getWorkspaceXml, generatedCode)
       /\ UNCHANGED saves
  ELSE UNCHANGED <<saves, currentProject, store, nextId>>

\* Toolbar onSave and the interval callback: lines 59-64
handleSave ==
  IF getWorkspaceXml # EmptyText
  THEN /\ InFlight < MaxInFlight
       /\ saveProject(getWorkspaceXml, generatedCode)
       /\ UNCHANGED createVars
  ELSE UNCHANGED <<saves, currentProject, store, nextId>>

handleNewProject == createNewProject(getWorkspaceXml, generatedCode)

\* handleOpenProject going on whatever openProject answered; xml: the document
\* of the record fetched
handleOpenProjectThenAlways(outcome, xml) ==
  /\ remount(xml)
  /\ Len(console) < MaxConsole
  /\ console' = Append(console, InfoLoaded)

\* what handleOpenProject does after `await openProject(id)`: on NotFound the
\* await throws and the rest of the handler is skipped
handleOpenProjectThen(outcome, xml) ==
  IF outcome = "none"
  THEN /\ remount(xml)
       /\ Len(console) < MaxConsole
       /\ console' = Append(console, InfoLoaded)
  ELSE UNCHANGED <<workspaceRef, mainWorkspace, generatedCode, heldWorkspace,
                   checkTimer, console>>

\* the interval callback without its `if (currentProject)`
autoSaveTickNoGuard == handleSave

\* the interval callback
autoSaveTick ==
  IF currentProject # NoProject
  THEN handleSave
  ELSE UNCHANGED <<saves, currentProject, store, nextId>>

\* --------------------------------------------------------------- Init
Init ==
  /\ currentProject = NoProject
  /\ store = << >>
  /\ nextId = 1
  /\ generatedCode = EmptyText
  /\ workspaceRef = Null
  /\ mainWorkspace = NoWorkspace
  /\ heldWorkspace = NoWorkspace
  /\ checkTimer = TRUE
  /\ elapsed = 0
  /\ saves = {}
  /\ opens = {}
  /\ console = <<>>
  /\ lastCompleted = NoId
  /\ evt = Event("init", NoId, "none")

\* ------------------------------------------------------------ actions
\* checkWorkspace, run by the 500 ms timeout after a (re)mount; found: the
\* .blockly-container and the main workspace are there when it runs
CheckWorkspace ==
  /\ checkTimer
  /\ \E found \in BOOLEAN :
       IF found
       THEN workspaceRef' = "main" /\ heldWorkspace' = NoWorkspace
       ELSE UNCHANGED <<workspaceRef, heldWorkspace>>
  /\ checkTimer' = FALSE
  /\ evt' = Event("env", NoId, "none")
  /\ UNCHANGED <<currentProject, store, nextId, generatedCode, mainWorkspace,
                 elapsed, saves, opens, console, lastCompleted>>

\* the user changes the mounted surface; the code generator follows
Edit(b) ==
  /\ b # mainWorkspace.blocks
  /\ mainWorkspace' = [mainWorkspace EXCEPT !.blocks = b]
  /\ generatedCode' = generate(b)
  /\ autoSaveEffect(FALSE, generatedCode')
  /\ evt' = Event("env", NoId, "none")
  /\ UNCHANGED <<currentProject, store, nextId, workspaceRef,
                 heldWorkspace, checkTimer, saves, opens, console, lastCompleted>>

\* Toolbar onSave
Save ==
  /\ handleSave
  /\ autoSaveEffect(currentProject' # currentProject, generatedCode)
  /\ evt' = Event("handleSave", currentProject.id, "none")
  /\ UNCHANGED <<generatedCode, workspaceRef, mainWorkspace,
                 heldWorkspace, checkTimer, opens, console, lastCompleted>>

\* a saveProject call in flight completes
SaveComplete(s) ==
  /\ s \in saves
  /\ saves' = saves \ {s}
  /\ \E ok \in BOOLEAN : saveProjectDone(s, ok)
  /\ UNCHANGED <<currentProject, nextId, generatedCode, workspaceRef,
                 mainWorkspace, heldWorkspace, checkTimer, elapsed, opens,
                 lastCompleted>>

\* Toolbar onNewProject; the mounted surface now shows the new project
NewProject ==
  /\ handleNewProject
  /\ lastCompleted' = nextId
  /\ mainWorkspace' = [mainWorkspace EXCEPT !.owner = nextId]
  /\ autoSaveEffect(TRUE, generatedCode)
  /\ evt' = Event("handleNewProject", nextId, "none")
  /\ UNCHANGED <<generatedCode, workspaceRef, heldWorkspace,
                 checkTimer, saves, opens, console>>

\* Toolbar onOpenProject: the handler starts and awaits openProject(id)
OpenProject(id) ==
  /\ InFlight < MaxInFlight
  /\ id \notin opens
  /\ opens' = opens \cup {id}
  /\ evt' = Event("env", NoId, "none")
  /\ UNCHANGED <<currentProject, store, nextId, generatedCode, workspaceRef,
                 mainWorkspace, heldWorkspace, checkTimer, elapsed,
                 saves, console, lastCompleted>>

\* the fetch answers and the handler runs to its end
OpenComplete(id) ==
  /\ id \in opens
  /\ opens' = opens \ {id}
  /\ openProject(id)
  /\ handleOpenProjectThen(openOutcome(id), openedXml(id))
  /\ lastCompleted' = IF openOutcome(id) = "none" THEN id ELSE lastCompleted
  /\ autoSaveEffect(openOutcome(id) = "none", generatedCode')
  /\ evt' = Event("openComplete", id, openOutcome(id))
  /\ UNCHANGED <<store, nextId, saves>>

\* Toolbar onImportProject: a project is created from the supplied document
\* and the surface is mounted anew
ImportProject(b) ==
  /\ createNewProject(workspaceToXml([owner |-> NoId, blocks |-> b]), generate(b))
  /\ lastCompleted' = nextId
  /\ remount(workspaceToXml([owner |-> NoId, blocks |-> b]))
  /\ autoSaveEffect(TRUE, generatedCode')
  /\ evt' = Event("handleImportProject", nextId, "none")
  /\ UNCHANGED <<saves, opens, console>>

\* the 30 s interval fires
AutoSave ==
  /\ elapsed = AutoSaveInterval
  /\ autoSaveTick
  /\ elapsed' = 0
  /\ evt' = Event("tick", currentProject.id, "none")
  /\ UNCHANGED <<generatedCode, workspaceRef, mainWorkspace,
                 heldWorkspace, checkTimer, opens, console, lastCompleted>>

\* a clock unit passes; the 500 ms timeout, if pending, fires first
TimePasses ==
  /\ ~checkTimer
  /\ elapsed < AutoSaveInterval
  /\ elapsed' = elapsed + 1
  /\ evt' = Event("env", NoId, "none")
  /\ UNCHANGED <<currentProject, store, nextId, generatedCode, workspaceRef,
                 mainWorkspace, heldWorkspace, checkTimer, saves,
                 opens, console, lastCompleted>>

Next ==
  \/ CheckWorkspace
  \/ \E b \in Contents : Edit(b)
  \/ Save
  \/ \E s \in saves : SaveComplete(s)
  \/ NewProject
  \/ \E id \in ProjectIds \cup {MissingId} : OpenProject(id)
  \/ \E id \in opens : OpenComplete(id)
  \/ \E b \in Contents : ImportProject(b)
  \/ AutoSave
  \/ TimePasses

Spec == Init /\ [][Next]_vars

\* ------------------------------------------------------------- claims
\* the records of the store
Records == {store[id] : id \in DOMAIN store}

\* C1: a save issued while the surface is unmounted (getWorkspaceXml returns
\* '') starts no saveProject call and writes nothing to the store, and no step
\* replaces a stored non-empty workspace document by an empty one.
C1_UnmountedSaveWritesNothing ==
  [][/\ getWorkspaceXml = EmptyText =>
          /\ saves' \subseteq saves
          /\ (evt'.op \in {"handleSave", "tick"} => store' = store)
     /\ \A s \in saves' : s.blocklyXml # EmptyText
     /\ \A id \in DOMAIN store :
          store[id].blocklyXml # EmptyText =>
            (id \in DOMAIN store' /\ store'[id].blocklyXml # EmptyText)]_vars

\* C1 witness: an explicit save has just been skipped on an unmounted surface
\* while the active project's record holds a non-empty document.
C1_Witness ==
  /\ evt.op = "handleSave"
  /\ workspaceRef = Null
  /\ currentProject # NoProject
  /\ currentProject.id \in DOMAIN store
  /\ store[currentProject.id].blocklyXml # EmptyText
  /\ saves = {}

C3_FailedOpenChangesNothing ==
  [][(evt'.op = "openComplete" /\ evt'.id \notin DOMAIN store) =>
        /\ evt'.thrown = "NotFound"
        /\ currentProject' = currentProject
        /\ console' = console
        /\ workspaceRef' = workspaceRef
        /\ checkTimer' = checkTimer
        /\ mainWorkspace' = mainWorkspace
        /\ lastCompleted' = lastCompleted]_vars

\* C3 witness: an open of the missing id has ended NotFound while a project
\* is active.
C3_Witness ==
  /\ evt.op = "openComplete"
  /\ evt.thrown = "NotFound"
  /\ evt.id = MissingId
  /\ currentProject # NoProject

\* C4: a save call carries the active project's id and the document the
\* workspace handle returns when the call is made, and when the call completes
\* with success the record of that id holds exactly that document.
C4_SaveStoresDocumentRead ==
  [][/\ \A s \in saves' \ saves :
          s.blocklyXml = getWorkspaceXml /\ s.id = currentProject.id
     /\ \A s \in saves \ saves' :
          evt'.op = "saveDone" =>
            (s.id \in DOMAIN store' /\ store'[s.id].blocklyXml = s.blocklyXml)]_vars

\* C4 witness: a save of the active project has completed with success on a
\* mounted surface, and the record holds the document of the call, which the
\* surface has left behind since.
C4_Witness ==
  /\ evt.op = "saveDone"
  /\ evt.id = currentProject.id
  /\ workspaceRef = "main"
  /\ store[evt.id].blocklyXml # workspaceToXml(mainWorkspace)

\* C5: every save call that will write a project's record carries a document
\* read from that project's own surface.
C5_SaveCarriesOwnDocument ==
  [][\A s \in saves' \ saves : s.id # NoId => readOwner = s.id]_vars

\* C6: an interval tick with no active project starts no call and performs no
\* store operation.
C6_IdleTickTouchesNothing ==
  [][(evt'.op = "tick" /\ currentProject = NoProject) =>
        (saves' = saves /\ opens' = opens /\ store' = store /\ nextId' = nextId)]_vars

\* C6 witness: the interval has fired with no active project on a mounted
\* surface.
C6_Witness ==
  /\ evt.op = "tick"
  /\ currentProject = NoProject
  /\ workspaceRef # Null

C9_RearmedOnlyByProjectChange ==
  [][(currentProject # NoProject /\ elapsed' < elapsed) =>
        evt'.op \in {"tick", "openComplete", "handleNewProject",
                     "handleImportProject"}]_vars

\* C10: no project is created or persisted with an empty workspace document
\* next to a non-empty generated source.
C10_NoSourceWithoutDocument ==
  \A r \in Records : r.blocklyXml = EmptyText => r.generatedCode = EmptyText
====
